---- MODULE Spec2Model ----
(***************************************************************************)
(* A model of main.py: the NBA per-game scraper, its SQLite store, the     *)
(* PER calculation and the ranking report.                                 *)
(*                                                                         *)
(* Text is a sequence of one-character strings (<<"5","0">> is '50'), so   *)
(* that float(), the regular expression of the header sanitizer and        *)
(* SQLite's text comparison are computed character by character.  A        *)
(* Python float is an exact rational [n, d] in lowest terms with d > 0.    *)
(* The store is one season's database file: whether the file exists, the   *)
(* column names of table players (<<>>: no table) and its committed rows,  *)
(* each a tuple of the column values in column order, in rowid order.      *)
(***************************************************************************)
EXTENDS Integers, Sequences, FiniteSets, TLC

VARIABLES
    fileExists,         \* os.path.isfile(db_file)
    schema,             \* committed column names of table players, in order (<<>>: no table)
    rows,               \* committed rows of table players, in rowid order
    console,            \* the last line the run printed, or the fault that ended it
    lastCall,           \* the function called last
    createFaulted,      \* history: a create_nba_database call faulted after creating the file
    orderUsed,          \* history of the rename study: the order of the renames of the call
                        \* that created the file, <<>> if it did not get to them
    boxLine,            \* the formula study: the box-score line (in tenths) of the scraped player
    player_records,     \* print_top_players: what its query returned
    topByPosition,      \* print_top_players: <<position, printed list>> per group, in dict order
    topOverall,         \* print_top_players: the printed overall list
    rawHeaders,         \* scrape_nba_player_data: the texts of the th cells of the header row
    sanitized_headers   \* scrape_nba_player_data: the sanitized headers, or the fault

vars == <<fileExists, schema, rows, console, lastCall, createFaulted, orderUsed, boxLine,
          player_records, topByPosition, topOverall, rawHeaders, sanitized_headers>>

storeVars == <<fileExists, schema, rows>>
reportVars == <<player_records, topByPosition, topOverall>>
scrapeVars == <<rawHeaders, sanitized_headers>>

-----------------------------------------------------------------------------
(* Bounds of the model *)

\* rows in one player_data argument
MaxData == 2
\* rows scraped from a table of another layout, and rows of the rename-order study
MaxOtherData == 1
\* th cells in the header row
MaxHeaders == 3
\* characters in one raw header label
MaxLabelLen == 2
\* players of the generated seasons
MaxPlayers == 78

-----------------------------------------------------------------------------
(* Characters and text *)

DigitChars == <<"0", "1", "2", "3", "4", "5", "6", "7", "8", "9">>

IsDigit(c) == \E i \in 1..10 : DigitChars[i] = c

DigitVal(c) == (CHOOSE i \in 1..10 : DigitChars[i] = c) - 1

LetterChars == {"a", "c", "t", "x", "A", "B", "C", "F", "G", "L", "P", "S"}

\* \w of Python's re: letters, digits and the underscore
IsWordChar(c) == c \in LetterChars \/ IsDigit(c) \/ c = "_"

IsSpace(c) == c = " "

\* the byte of a character: SQLite's BINARY collation compares text with memcmp
AsciiCode(c) ==
    CASE c = " " -> 32
      [] c = "%" -> 37
      [] c = "-" -> 45
      [] c = "." -> 46
      [] IsDigit(c) -> 48 + DigitVal(c)
      [] c = "A" -> 65
      [] c = "B" -> 66
      [] c = "C" -> 67
      [] c = "F" -> 70
      [] c = "G" -> 71
      [] c = "L" -> 76
      [] c = "P" -> 80
      [] c = "S" -> 83
      [] c = "_" -> 95
      [] c = "a" -> 97
      [] c = "c" -> 99
      [] c = "t" -> 116
      [] c = "x" -> 120

RECURSIVE TextLess(_, _)
\* memcmp order: the first differing byte decides, a proper prefix is smaller
TextLess(a, b) ==
    IF b = <<>> THEN FALSE
    ELSE IF a = <<>> THEN TRUE
    ELSE IF AsciiCode(Head(a)) # AsciiCode(Head(b))
         THEN AsciiCode(Head(a)) < AsciiCode(Head(b))
         ELSE TextLess(Tail(a), Tail(b))

RECURSIVE NatText(_)
\* the decimal numeral of a natural number
NatText(n) ==
    IF n < 10 THEN <<DigitChars[n + 1]>>
    ELSE NatText(n \div 10) \o <<DigitChars[(n % 10) + 1]>>

-----------------------------------------------------------------------------
(* scrape_nba_player_data: the header step *)

Ok(v) == [fault |-> "none", value |-> v]
Fault(kind) == [fault |-> kind, value |-> <<>>]

RECURSIVE LStrip(_)
LStrip(t) == IF t # <<>> /\ IsSpace(Head(t)) THEN LStrip(Tail(t)) ELSE t

RECURSIVE RStrip(_)
RStrip(t) ==
    IF t # <<>> /\ IsSpace(t[Len(t)]) THEN RStrip(SubSeq(t, 1, Len(t) - 1)) ELSE t

\* str.strip()
Strip(t) == RStrip(LStrip(t))

RECURSIVE ReplacePct(_)
\* str.replace("%", "Pct")
ReplacePct(t) ==
    IF t = <<>> THEN <<>>
    ELSE IF Head(t) = "%" THEN <<"P", "c", "t">> \o ReplacePct(Tail(t))
    ELSE <<Head(t)>> \o ReplacePct(Tail(t))

\* re.sub(r'\W+', '', header)
RemoveNonWord(t) == SelectSeq(t, IsWordChar)

\* if sanitized_header[0].isdigit(): of '' an IndexError
Prefixed(s) ==
    IF s = <<>> THEN Fault("IndexError")
    ELSE IF IsDigit(s[1]) THEN Ok(<<"_">> \o s) ELSE Ok(s)

\* the body of the loop over headers
sanitized_header(header) == Prefixed(RemoveNonWord(header))

RECURSIVE SanitizeAll(_)
Sanitized(h, rest) ==
    IF h.fault # "none" THEN h
    ELSE IF rest.fault # "none" THEN rest
    ELSE Ok(<<h.value>> \o rest.value)

\* the loop over headers: the first fault ends the run
SanitizeAll(headers) ==
    IF headers = <<>> THEN Ok(<<>>)
    ELSE Sanitized(sanitized_header(Head(headers)), SanitizeAll(Tail(headers)))

\* headers[1:]
DropFirst(headers) == IF headers = <<>> THEN <<>> ELSE Tail(headers)

\* the th texts stripped, '%' replaced, the first (Rk) dropped, the rest sanitized
scrape_headers(ths) ==
    SanitizeAll(DropFirst([i \in 1..Len(ths) |-> ReplacePct(Strip(ths[i]))]))

-----------------------------------------------------------------------------
(* Python floats, as exact rationals *)

Abs(x) == IF x < 0 THEN -x ELSE x

RECURSIVE GCD(_, _)
GCD(a, b) == IF b = 0 THEN a ELSE GCD(b, a % b)

Reduced(n, d, g) == [n |-> n \div g, d |-> d \div g]

\* n/d in lowest terms with a positive denominator (d # 0)
Rat(n, d) ==
    IF d < 0 THEN Reduced(-n, -d, GCD(Abs(n), Abs(d))) ELSE Reduced(n, d, GCD(Abs(n), Abs(d)))

Zero == Rat(0, 1)
RAdd(a, b) == Rat(a.n * b.d + b.n * a.d, a.d * b.d)
RSub(a, b) == Rat(a.n * b.d - b.n * a.d, a.d * b.d)
RMul(a, k) == Rat(a.n * k, a.d)
\* a / k for an integer k # 0
RDivInt(a, k) == Rat(a.n, a.d * k)
\* a / b for b # 0
RDiv(a, b) == Rat(a.n * b.d, a.d * b.n)
RLess(a, b) == a.n * b.d < b.n * a.d

RECURSIVE RSum(_)
\* the terms added from left to right
RSum(terms) ==
    IF terms = <<>> THEN Zero
    ELSE RAdd(RSum(SubSeq(terms, 1, Len(terms) - 1)), terms[Len(terms)])

RECURSIVE DigitsValue(_)
DigitsValue(t) ==
    IF t = <<>> THEN 0 ELSE 10 * DigitsValue(SubSeq(t, 1, Len(t) - 1)) + DigitVal(t[Len(t)])

RECURSIVE Pow10(_)
Pow10(k) == IF k = 0 THEN 1 ELSE 10 * Pow10(k - 1)

\* the value of digits with at most one '.', at least one digit; anything else is a
\* ValueError
FloatUnsigned(u, sign) ==
    IF \/ \E i \in 1..Len(u) : ~IsDigit(u[i]) /\ u[i] # "."
       \/ Cardinality({i \in 1..Len(u) : u[i] = "."}) > 1
       \/ \A i \in 1..Len(u) : ~IsDigit(u[i])
    THEN Fault("ValueError")
    ELSE Ok(Rat(sign * DigitsValue(SelectSeq(u, IsDigit)),
                Pow10(Cardinality({i \in 1..Len(u) : \E j \in 1..Len(u) : u[j] = "." /\ j < i}))))

FloatStripped(t) ==
    IF t # <<>> /\ Head(t) = "-" THEN FloatUnsigned(Tail(t), -1) ELSE FloatUnsigned(t, 1)

\* float(text) for text over digits, '.', '-', blanks and letters: blanks around it
\* are ignored, then an optional '-', then the digits
float(text) == FloatStripped(Strip(text))

-----------------------------------------------------------------------------
(* The SQLite store *)

Has(cols, c) == \E i \in 1..Len(cols) : cols[i] = c
ColIndex(cols, c) == CHOOSE i \in 1..Len(cols) : cols[i] = c
DupFree(cols) == \A i, j \in 1..Len(cols) : cols[i] = cols[j] => i = j

IsStatHeader(header) == header \notin {"Player", "Tm"}

\* the column list of CREATE TABLE, and of INSERT INTO players (...)
TableColumns(headers) ==
    <<"player_name", "player_team">> \o SelectSeq(headers, IsStatHeader) \o <<"PER">>

\* CREATE TABLE IF NOT EXISTS players (...): no statement without a header column,
\* no table with two columns of one name
CreateTable(cols, headers) ==
    IF cols # <<>> THEN Ok(cols)
    ELSE IF SelectSeq(headers, IsStatHeader) = <<>> \/ ~DupFree(TableColumns(headers))
         THEN Fault("OperationalError")
         ELSE Ok(TableColumns(headers))

\* a comparison of the pair with the columns crossed
KeyMatchCrossed(row, name, team) == row[1] = team /\ row[2] = name

\* a row whose first two columns (the primary key) are name and team
KeyMatch(row, name, team) == row[1] = name /\ row[2] = team

\* SELECT COUNT(*) FROM players WHERE player_name = ? AND player_team = ?
CountKey(w, name, team) == Cardinality({i \in 1..Len(w) : KeyMatch(w[i], name, team)})

\* INSERT INTO players (columns) VALUES (?, ...): as many values as columns, and
\* PRIMARY KEY (player_name, player_team)
Insert(w, columns, values) ==
    IF Len(values) # Len(columns) THEN Fault("OperationalError")
    ELSE IF \E i \in 1..Len(w) : KeyMatch(w[i], values[1], values[2])
         THEN Fault("IntegrityError")
         ELSE Ok(Append(w, values))

\* stat if stat else '0', for each stat
Filled(player_stats) ==
    [i \in 1..Len(player_stats) |->
        IF player_stats[i] = <<>> THEN <<"0">> ELSE player_stats[i]]

\* the body of the loop over player_data
IngestRow(w, headers, player_info) ==
    IF Len(player_info) < 2 THEN Ok(w)
    ELSE IF CountKey(w, player_info[1], player_info[2]) = 0
         THEN Insert(w, TableColumns(headers),
                     <<player_info[1], player_info[2]>>
                         \o Filled(SubSeq(player_info, 3, Len(player_info))) \o <<Zero>>)
         ELSE Ok(w)

RECURSIVE IngestAll(_, _, _)
\* the rest of the loop, unless a fault has ended it
IngestRest(r, headers, rest) ==
    IF r.fault # "none" THEN r ELSE IngestAll(r.value, headers, rest)

\* the loop over player_data, the first fault ending it: the rows of the first half
\* of the list in turn, then those of the second half
IngestAll(w, headers, player_data) ==
    IF player_data = <<>> THEN Ok(w)
    ELSE IF Len(player_data) = 1 THEN IngestRow(w, headers, player_data[1])
    ELSE IngestRest(IngestAll(w, headers, SubSeq(player_data, 1, Len(player_data) \div 2)),
                    headers,
                    SubSeq(player_data, Len(player_data) \div 2 + 1, Len(player_data)))

\* the three ALTER TABLE players RENAME COLUMN statements, as written
Renames == <<[old |-> "player_team", new |-> "Position"],
             [old |-> "Age", new |-> "Tm"],
             [old |-> "Pos", new |-> "Age"]>>

\* a rename that does not look for a column of the new name
RenameColumnUnchecked(cols, old, new) ==
    IF ~Has(cols, old) THEN Fault("OperationalError")
    ELSE Ok([i \in 1..Len(cols) |-> IF cols[i] = old THEN new ELSE cols[i]])

\* ALTER TABLE players RENAME COLUMN old TO new
RenameColumn(cols, old, new) ==
    IF ~Has(cols, old) \/ Has(cols, new) THEN Fault("OperationalError")
    ELSE Ok([i \in 1..Len(cols) |-> IF cols[i] = old THEN new ELSE cols[i]])

RECURSIVE RenameInOrder(_, _)
RenameRest(cols, r, order) ==
    IF r.fault # "none" THEN [fault |-> r.fault, value |-> cols]
    ELSE RenameInOrder(r.value, Tail(order))

\* the renames numbered in order, one after the other; a fault keeps what was renamed
RenameInOrder(cols, order) ==
    IF order = <<>> THEN Ok(cols)
    ELSE RenameRest(cols, RenameColumn(cols, Renames[Head(order)].old,
                                       Renames[Head(order)].new), order)

\* the order of the three statements in create_nba_database
RenameOrder == <<1, 2, 3>>

Store(f, s, r, c) == [fileExists |-> f, schema |-> s, rows |-> r, console |-> c]

\* the renames done, or the fault of one: with rows inserted the renames share the
\* transaction that is lost, without any each rename was committed as it ran
Renamed(cols, ins, ren) ==
    IF ren.fault # "none"
    THEN Store(TRUE, IF ins.value # <<>> THEN cols ELSE ren.value, <<>>, ren.fault)
    ELSE Store(TRUE, ren.value, ins.value, "created")

Ingested(cols, ins, order) ==
    IF ins.fault # "none" THEN Store(TRUE, cols, <<>>, ins.fault)
    ELSE Renamed(cols, ins, RenameInOrder(cols, order))

Created(table, headers, player_data, order) ==
    IF table.fault # "none" THEN Store(TRUE, <<>>, <<>>, table.fault)
    ELSE Ingested(table.value, IngestAll(<<>>, headers, player_data), order)

\* create_nba_database with its three renames in the given order, on the store
\* (f, s, r).  The connection is in Python's default transaction mode: CREATE TABLE
\* is committed as it runs, the first INSERT opens a transaction that the renames
\* then join, and without an INSERT each rename is committed as it runs.  A fault
\* ends the process before conn.commit(), so the open transaction is rolled back;
\* the file that sqlite3.connect created stays.
create_with_renames(f, s, r, headers, player_data, order) ==
    IF f THEN Store(f, s, r, "exists")
    ELSE Created(CreateTable(<<>>, headers), headers, player_data, order)

\* create_nba_database without the os.path.isfile test: it works on whatever the
\* file holds (CREATE TABLE IF NOT EXISTS keeps an existing table)
create_nba_database_unchecked(f, s, r, headers, player_data) ==
    IF s = <<>> THEN Created(CreateTable(<<>>, headers), headers, player_data, RenameOrder)
    ELSE IF ~Has(s, "player_team") THEN Store(TRUE, s, r, "OperationalError")
    ELSE Ingested(s, IngestAll(r, headers, player_data), RenameOrder)

\* create_nba_database(headers, player_data, year)
create_nba_database(f, s, r, headers, player_data) ==
    create_with_renames(f, s, r, headers, player_data, RenameOrder)

-----------------------------------------------------------------------------
(* PER_calculator *)

\* player_record[i], with Python's index from 0
Field(player_record, i) == player_record[i + 1]

\* the indices converted with float(), in the order of the statements
StatFields == <<6, 28, 23, 21, 20, 24, 25, 13, 10, 14, 11, 26, 27>>

Converted(player_record) ==
    [k \in 1..Len(StatFields) |->
        IF StatFields[k] + 1 > Len(player_record) THEN Fault("IndexError")
        ELSE float(Field(player_record, StatFields[k]))]

Faulty(conv) == {k \in 1..Len(conv) : conv[k].fault # "none"}

\* the fault of the first conversion that fails
FirstFault(conv) ==
    IF Faulty(conv) = {} THEN "none"
    ELSE conv[CHOOSE k \in Faulty(conv) : \A j \in Faulty(conv) : k <= j].fault

\* the PER expression with the division applied to the whole difference
ExpressionDividedWhole(minutes_played, points, assists, defensive_rebounds, offensive_rebounds, steals, blocks, two_pointers_made, three_pointers_made, two_pointers_attempted, three_pointers_attempted, turnovers, personal_fouls) ==
    IF minutes_played.n = 0 THEN Fault("ZeroDivisionError")
    ELSE Ok(RDiv(RSub(RSum(<<points, assists, RDivInt(defensive_rebounds, 2),
                            offensive_rebounds, RMul(steals, 2), RMul(blocks, 2),
                            two_pointers_made, RMul(three_pointers_made, 2)>>),
                      RSum(<<RDivInt(two_pointers_attempted, 2), three_pointers_attempted,
                             RMul(turnovers, 2), RDivInt(personal_fouls, 3)>>)),
                 minutes_played))

\* PER = (...) - (...) / minutes_played; a float division by 0.0 is a ZeroDivisionError
Expression(minutes_played, points, assists, defensive_rebounds, offensive_rebounds, steals, blocks, two_pointers_made, three_pointers_made, two_pointers_attempted, three_pointers_attempted, turnovers, personal_fouls) ==
    IF minutes_played.n = 0 THEN Fault("ZeroDivisionError")
    ELSE Ok(RSub(RSum(<<points, assists, RDivInt(defensive_rebounds, 2),
                       offensive_rebounds, RMul(steals, 2), RMul(blocks, 2),
                       two_pointers_made, RMul(three_pointers_made, 2)>>),
                 RDiv(RSum(<<RDivInt(two_pointers_attempted, 2), three_pointers_attempted,
                             RMul(turnovers, 2), RDivInt(personal_fouls, 3)>>),
                      minutes_played)))

\* the expression on the converted values, in the order of StatFields
Computed(conv) ==
    IF FirstFault(conv) # "none" THEN Fault(FirstFault(conv))
    ELSE Expression(conv[1].value, conv[2].value, conv[3].value, conv[4].value,
                    conv[5].value, conv[6].value, conv[7].value, conv[8].value,
                    conv[9].value, conv[10].value, conv[11].value, conv[12].value,
                    conv[13].value)

\* the thirteen conversions and the PER expression of one record
PER(player_record) == Computed(Converted(player_record))

\* a WHERE clause that names the player only
WhereName(row, iName, iPosition, name, position) == row[iName] = name

\* WHERE player_name = ? AND Position = ?, the columns numbered by their names
Where(row, iName, iPosition, name, position) ==
    row[iName] = name /\ row[iPosition] = position

\* the PER of each record that fetchall returned
Scores(records) == [i \in 1..Len(records) |-> PER(records[i])]

First(faulty) == CHOOSE i \in faulty : \A j \in faulty : i <= j

PassedBefore(n, faulty) == IF faulty = {} THEN n ELSE First(faulty) - 1

\* how many records the loop gets through: those before the first whose PER faults
Passed(scores) ==
    PassedBefore(Len(scores), {i \in 1..Len(scores) : scores[i].fault # "none"})

Last(hits) == CHOOSE j \in hits : \A k \in hits : k <= j

\* the UPDATEs, among those of the first `passed` records, whose WHERE matches the row
Hits(row, records, passed, iName, iPosition) ==
    {j \in 1..passed :
        Where(row, iName, iPosition, Field(records[j], 0), Field(records[j], 1))}

\* SET PER = ?: the row after the UPDATEs that match it, the last one standing
SetPER(row, iPER, scores, hits) ==
    IF hits = {} THEN row ELSE [row EXCEPT ![iPER] = scores[Last(hits)].value]

\* the table after the UPDATEs of the first `passed` records
UpdatedRows(w, records, scores, passed, iName, iPosition, iPER) ==
    [i \in 1..Len(w) |->
        SetPER(w[i], iPER, scores, Hits(w[i], records, passed, iName, iPosition))]

\* the loop with the UPDATE's columns in the table: it ends at the first record
\* whose PER faults, with the rows as updated so far
Looped(w, cols, records, scores, passed) ==
    [fault |-> IF passed = Len(records) THEN "none" ELSE scores[passed + 1].fault,
     value |-> UpdatedRows(w, records, scores, passed, ColIndex(cols, "player_name"),
                           ColIndex(cols, "Position"), ColIndex(cols, "PER"))]

\* the loop over player_records: PER of the record, then
\* UPDATE players SET PER = ? WHERE player_name = ? AND Position = ?, which faults
\* on a table without these columns
UpdateAll(records, w, cols) ==
    IF records = <<>> THEN Ok(w)
    ELSE IF Has(cols, "PER") /\ Has(cols, "player_name") /\ Has(cols, "Position")
         THEN Looped(w, cols, records, Scores(records), Passed(Scores(records)))
         ELSE IF PER(records[1]).fault # "none"
              THEN [fault |-> PER(records[1]).fault, value |-> w]
              ELSE [fault |-> "OperationalError", value |-> w]

\* every UPDATE committed as it runs
CommittedEach(s, r, done) ==
    Store(TRUE, s, done.value, IF done.fault # "none" THEN done.fault ELSE "per_done")

\* conn.commit() after the loop: a fault before it leaves the rows as they were
Committed(s, r, done) ==
    IF done.fault # "none" THEN Store(TRUE, s, r, done.fault)
    ELSE Store(TRUE, s, done.value, "per_done")

\* PER_calculator(year) on the store (f, s, r), its scrape (whose result it does not
\* use) done: sqlite3.connect creates a missing file, SELECT * FROM players needs
\* the table, the UPDATEs share one transaction
PER_calculator(f, s, r) ==
    IF s = <<>> THEN Store(TRUE, s, r, "OperationalError")
    ELSE Committed(s, r, UpdateAll(r, r, s))

-----------------------------------------------------------------------------
(* print_top_players *)

\* the literal of WHERE G >= 50
MinGames == 50
\* the slice [:10] of each position's list
TopPerPosition == 10
\* the slice [:75] of the overall list
TopOverallCount == 75

\* G >= 50 on a TEXT column: the column's affinity turns the literal into the
\* text '50', and the two are compared as text
GamesAtLeast(g, literal) == ~TextLess(g, NatText(literal))

\* the three selected columns of the rows picked
Projected(hits, iName, iPosition, iPER) ==
    [i \in 1..Len(hits) |-> <<hits[i][iName], hits[i][iPosition], hits[i][iPER]>>]

Picked(r, iGames) == SelectSeq(r, LAMBDA row : GamesAtLeast(row[iGames], MinGames))

\* SELECT player_name, Position, PER FROM players WHERE G >= 50
SelectEligible(cols, r) ==
    IF \E c \in {"player_name", "Position", "PER", "G"} : ~Has(cols, c)
    THEN Fault("OperationalError")
    ELSE Ok(Projected(Picked(r, ColIndex(cols, "G")), ColIndex(cols, "player_name"),
                      ColIndex(cols, "Position"), ColIndex(cols, "PER")))

\* the records whose position no earlier record has
FirstOfPosition(records) ==
    SelectSeq([i \in 1..Len(records) |-> i],
              LAMBDA i : \A j \in 1..(i - 1) : records[j][2] # records[i][2])

PositionsAt(records, firsts) == [k \in 1..Len(firsts) |-> records[firsts[k]][2]]

\* the keys of players_by_position, in the order the dict got them
PositionsSeen(records) == PositionsAt(records, FirstOfPosition(records))

NamePer(hits) == [i \in 1..Len(hits) |-> <<hits[i][1], hits[i][3]>>]

\* players_by_position[position]: (player_name, per) in the order read
PlayersAt(records, position) ==
    NamePer(SelectSeq(records, LAMBDA rec : rec[2] = position))

\* where players[i] stands after the sort: behind every player of a higher per, and
\* behind the players of its own per that were before it
Rank(players, i) ==
    Cardinality({j \in 1..Len(players) : RLess(players[i][2], players[j][2])})
    + Cardinality({j \in 1..i : /\ ~RLess(players[i][2], players[j][2])
                                /\ ~RLess(players[j][2], players[i][2])})

Ranks(players) == [i \in 1..Len(players) |-> Rank(players, i)]

Placed(players, ranks) ==
    [k \in 1..Len(ranks) |-> players[CHOOSE i \in 1..Len(ranks) : ranks[i] = k]]

\* sorted(players, key=lambda x: x[1], reverse=True): stable, highest per first
SortedDescending(players) == Placed(players, Ranks(players))

\* seq[:k]
FirstK(seq, k) == SubSeq(seq, 1, IF Len(seq) < k THEN Len(seq) ELSE k)

RECURSIVE Concat(_)
Concat(lists) == IF lists = <<>> THEN <<>> ELSE Head(lists) \o Concat(Tail(lists))

\* the list printed for one position
TopOfPosition(records, position) ==
    FirstK(SortedDescending(PlayersAt(records, position)), TopPerPosition)

PrintedLists(records, positions) ==
    [i \in 1..Len(positions) |-> <<positions[i], TopOfPosition(records, positions[i])>>]

\* the overall list built from the positions' printed lists
TopOfAll_from_printed(records, positions) ==
    FirstK(SortedDescending(
               Concat([i \in 1..Len(positions) |-> TopOfPosition(records, positions[i])])),
           TopOverallCount)

\* the overall list: all_players is every group's players, group after group
TopOfAll(records, positions) ==
    FirstK(SortedDescending(
               Concat([i \in 1..Len(positions) |-> PlayersAt(records, positions[i])])),
           TopOverallCount)

Report(q) ==
    IF q.fault # "none"
    THEN [console |-> q.fault, player_records |-> <<>>, byPosition |-> <<>>, overall |-> <<>>]
    ELSE [console |-> "report",
          player_records |-> q.value,
          byPosition |-> PrintedLists(q.value, PositionsSeen(q.value)),
          overall |-> TopOfAll(q.value, PositionsSeen(q.value))]

\* print_top_players(year): what it read and the two lists it printed
print_top_players(s, r) ==
    IF s = <<>>
    THEN [console |-> "OperationalError", player_records |-> <<>>, byPosition |-> <<>>,
          overall |-> <<>>]
    ELSE Report(SelectEligible(s, r))

-----------------------------------------------------------------------------
(* The scraped data the model feeds in *)

\* the sanitized headers of the per-game table, Rk dropped
StdHeaders ==
    <<"Player", "Pos", "Age", "Tm", "G", "GS", "MP", "FG", "FGA", "FGPct", "_3P", "_3PA",
      "_3PPct", "_2P", "_2PA", "_2PPct", "eFGPct", "FT", "FTA", "FTPct", "ORB", "DRB",
      "TRB", "AST", "STL", "BLK", "TOV", "PF", "PTS">>

Retitled(old, new) == [i \in 1..Len(StdHeaders) |-> IF StdHeaders[i] = old THEN new ELSE StdHeaders[i]]

\* the table as it is, and tables that make CREATE TABLE or one of the renames fail
HeaderChoices ==
    {StdHeaders,
     Retitled("GS", "G"),
     Retitled("GS", "Position"),
     Retitled("Age", "Yrs"),
     Retitled("Pos", "Role")}

\* a number of tenths as the site prints it: 425 is '42.5'
TenthsText(t) == NatText(t \div 10) \o <<".">> \o <<DigitChars[(t % 10) + 1]>>

\* a box-score line, in tenths
Line(mp, pts, ast, drb, orb, stl, blk, p2, p3, p2a, p3a, tov, pf) ==
    [MP |-> mp, PTS |-> pts, AST |-> ast, DRB |-> drb, ORB |-> orb, STL |-> stl,
     BLK |-> blk, _2P |-> p2, _3P |-> p3, _2PA |-> p2a, _3PA |-> p3a, TOV |-> tov, PF |-> pf]

ExampleLine == Line(300, 200, 50, 40, 20, 10, 10, 60, 20, 100, 50, 20, 30)

LineHeaders == {"MP", "PTS", "AST", "DRB", "ORB", "STL", "BLK", "_2P", "_3P", "_2PA",
                "_3PA", "TOV", "PF"}

\* the td texts of one player's row: each cell under its header, cells the model
\* does not follow left empty
PlayerInfo(name, position, team, games, line) ==
    [i \in 1..Len(StdHeaders) |->
        CASE StdHeaders[i] = "Player" -> name
          [] StdHeaders[i] = "Pos" -> position
          [] StdHeaders[i] = "Tm" -> team
          [] StdHeaders[i] = "G" -> games
          [] StdHeaders[i] \in LineHeaders -> TenthsText(line[StdHeaders[i]])
          [] OTHER -> <<>>]

\* the same row with one cell replaced
WithCell(info, header, text) ==
    [i \in 1..Len(info) |-> IF StdHeaders[i] = header THEN text ELSE info[i]]

AltLine == Line(70, 113, 37, 29, 17, 3, 7, 41, 13, 83, 31, 19, 23)

Team == <<"L", "A", "L">>

\* identity pairs: two players of one name, two players at one position
Players == {<<<<"A">>, <<"P", "G">>>>, <<<<"A">>, <<"C">>>>, <<<<"B">>, <<"C">>>>}

\* rows of the table: players with a full line, with no minutes, with a cell that
\* is no number; the header row repeated inside the table (no td); a row cut short
Candidates ==
    UNION {{PlayerInfo(k[1], k[2], Team, <<"5", "0">>, ExampleLine),
            PlayerInfo(k[1], k[2], Team, <<"8", "2">>, AltLine),
            PlayerInfo(k[1], k[2], Team, <<"4", "9">>, [ExampleLine EXCEPT !.MP = 0]),
            WithCell(PlayerInfo(k[1], k[2], Team, <<"6">>, ExampleLine), "PTS", <<"x">>)} :
           k \in Players}
    \cup {<<>>, SubSeq(PlayerInfo(<<"A">>, <<"C">>, Team, <<"5", "0">>, ExampleLine), 1, 28)}

DataUpTo(k) == UNION {[1..n -> Candidates] : n \in 0..k}

AllData == DataUpTo(MaxData)

\* the lines of the formula study: every field the example's value or another one,
\* the minutes also 0
Lines ==
    [MP : {300, 70, 0}, PTS : {200, 113}, AST : {50, 37}, DRB : {40, 29}, ORB : {20, 17},
     STL : {10, 3}, BLK : {10, 7}, _2P : {60, 41}, _3P : {20, 13}, _2PA : {100, 83},
     _3PA : {50, 31}, TOV : {20, 19}, PF : {30, 23}]

\* the raw header labels of the sanitizer study
LabelChars == {"a", "3", "%", " ", "-", "_"}
Labels == UNION {[1..n -> LabelChars] : n \in 0..MaxLabelLen}
HeaderRows == UNION {[1..n -> Labels] : n \in 1..MaxHeaders}

\* generated seasons: player i of n; the score is the points per game of a line
\* with one minute and nothing else
GenScore(i, n, pattern) ==
    CASE pattern = 1 -> i
      [] pattern = 2 -> n - i
      [] pattern = 3 -> i % 3
      [] pattern = 4 -> (i * 7) % 11

GenPosition(i, pattern) == IF pattern > 1 /\ i % 2 = 0 THEN <<"P", "G">> ELSE <<"C">>

GamesCycle == <<<<"5", "0">>, <<"6">>, <<"4", "9">>, <<"1", "0", "0">>, <<"8", "2">>>>

GenGames(i, pattern) == IF pattern < 3 THEN <<"8", "2">> ELSE GamesCycle[(i % 5) + 1]

GenData(n, pattern) ==
    [i \in 1..n |->
        PlayerInfo(<<"P">> \o NatText(i), GenPosition(i, pattern), Team,
                   GenGames(i, pattern),
                   Line(10, 10 * GenScore(i, n, pattern), 0, 0, 0, 0, 0, 0, 0, 0, 0, 0, 0))]

\* the six orders of the three renames
RenameOrders == {o \in [1..3 -> 1..3] : \A i, j \in 1..3 : o[i] = o[j] => i = j}

-----------------------------------------------------------------------------
(* The program: one season's file, and the functions of main.py run on it *)

NoReport == /\ player_records = <<>>
            /\ topByPosition = <<>>
            /\ topOverall = <<>>

NoScrape == /\ rawHeaders = <<>>
            /\ sanitized_headers = Ok(<<>>)

Init ==
    /\ fileExists = FALSE
    /\ schema = <<>>
    /\ rows = <<>>
    /\ console = ""
    /\ lastCall = "main"
    /\ createFaulted = FALSE
    /\ orderUsed = <<>>
    /\ boxLine = ExampleLine
    /\ NoReport
    /\ NoScrape

SetStore(after) ==
    /\ fileExists' = after.fileExists
    /\ schema' = after.schema
    /\ rows' = after.rows
    /\ console' = after.console

CreateNbaDatabase ==
    /\ \E headers \in HeaderChoices, player_data \in AllData :
           /\ headers = StdHeaders \/ Len(player_data) <= MaxOtherData
           /\ SetStore(create_nba_database(fileExists, schema, rows, headers, player_data))
    /\ lastCall' = "create_nba_database"
    /\ createFaulted' = (createFaulted \/ (~fileExists /\ console' # "created"))
    /\ UNCHANGED <<orderUsed, boxLine, reportVars, scrapeVars>>

PERCalculator ==
    /\ SetStore(PER_calculator(fileExists, schema, rows))
    /\ lastCall' = "PER_calculator"
    /\ UNCHANGED <<createFaulted, orderUsed, boxLine, reportVars, scrapeVars>>

SetReport(report) ==
    /\ console' = report.console
    /\ player_records' = report.player_records
    /\ topByPosition' = report.byPosition
    /\ topOverall' = report.overall

PrintTopPlayers ==
    /\ SetReport(print_top_players(schema, rows))
    /\ fileExists' = TRUE
    /\ lastCall' = "print_top_players"
    /\ UNCHANGED <<schema, rows, createFaulted, orderUsed, boxLine, scrapeVars>>

Next == CreateNbaDatabase \/ PERCalculator

Spec == Init /\ [][Next]_vars

-----------------------------------------------------------------------------
(* The rename-order study: the create step with its renames in any order *)

CreateWithRenames ==
    /\ \E o \in RenameOrders, player_data \in DataUpTo(MaxOtherData) :
           /\ SetStore(create_with_renames(fileExists, schema, rows, StdHeaders,
                                           player_data, o))
           /\ orderUsed' = IF fileExists THEN orderUsed
                          ELSE IF IngestAll(<<>>, StdHeaders, player_data).fault = "none"
                               THEN o
                               ELSE <<>>
    /\ lastCall' = "create_nba_database"
    /\ createFaulted' = (createFaulted \/ (~fileExists /\ console' # "created"))
    /\ UNCHANGED <<boxLine, reportVars, scrapeVars>>

NextRen == CreateWithRenames \/ PERCalculator

SpecRen == Init /\ [][NextRen]_vars

-----------------------------------------------------------------------------
(* The sanitizer study: the header step on any header row *)

InitSan ==
    /\ fileExists = FALSE
    /\ schema = <<>>
    /\ rows = <<>>
    /\ console = ""
    /\ lastCall = "main"
    /\ createFaulted = FALSE
    /\ orderUsed = <<>>
    /\ boxLine = ExampleLine
    /\ NoReport
    /\ rawHeaders \in HeaderRows
    /\ sanitized_headers = Ok(<<>>)

ScrapeNbaPlayerData ==
    /\ sanitized_headers' = scrape_headers(rawHeaders)
    /\ lastCall' = "scrape_nba_player_data"
    /\ console' = IF sanitized_headers'.fault # "none" THEN sanitized_headers'.fault ELSE console
    /\ UNCHANGED <<storeVars, createFaulted, orderUsed, boxLine, reportVars, rawHeaders>>

SpecSan == InitSan /\ [][ScrapeNbaPlayerData]_vars

-----------------------------------------------------------------------------
(* The formula study: one scraped player, any line *)

StoreIs(after) ==
    /\ fileExists = after.fileExists
    /\ schema = after.schema
    /\ rows = after.rows
    /\ console = after.console

InitPER ==
    /\ boxLine \in Lines
    /\ fileExists = FALSE
    /\ schema = <<>>
    /\ rows = <<>>
    /\ console = ""
    /\ lastCall = "main"
    /\ createFaulted = FALSE
    /\ orderUsed = <<>>
    /\ NoReport
    /\ NoScrape

\* what the scrape returned: one player with the line
ScrapedLine == <<PlayerInfo(<<"A">>, <<"P", "G">>, Team, <<"5", "0">>, boxLine)>>

CreateFromLine ==
    /\ SetStore(create_nba_database(fileExists, schema, rows, StdHeaders, ScrapedLine))
    /\ lastCall' = "create_nba_database"
    /\ createFaulted' = (createFaulted \/ (~fileExists /\ console' # "created"))
    /\ UNCHANGED <<orderUsed, boxLine, reportVars, scrapeVars>>

NextPER == CreateFromLine \/ PERCalculator

SpecPER == InitPER /\ [][NextPER]_vars

-----------------------------------------------------------------------------
(* The ranking study: a generated season, ingested, then scored and reported *)

\* the sizes of the generated seasons: the small ones, and those around the
\* length of the overall list
SeasonSizes == {n \in 0..MaxPlayers : n <= 3 \/ n >= MaxPlayers - 9}

InitRank ==
    /\ \E n \in SeasonSizes, pattern \in 1..4 :
           StoreIs(create_nba_database(FALSE, <<>>, <<>>, StdHeaders, GenData(n, pattern)))
    /\ lastCall = "create_nba_database"
    /\ createFaulted = FALSE
    /\ orderUsed = <<>>
    /\ boxLine = ExampleLine
    /\ NoReport
    /\ NoScrape

NextRank == PERCalculator \/ PrintTopPlayers

SpecRank == InitRank /\ [][NextRank]_vars

-----------------------------------------------------------------------------
(* Properties of the store under Spec *)

\* the column of the rows that holds PER
PERColumn == Len(schema)

\* C1: after any sequence of create_nba_database calls, no two records of the
\* players store have the same (player_name, team) pair
C1_UniqueIdentityPair ==
    \A i, j \in 1..Len(rows) :
        (rows[i][1] = rows[j][1] /\ rows[i][2] = rows[j][2]) => i = j

\* C1: a store that ingestion filled with two records of one name, whose teams differ
C1_TwoRecordsOfOneName ==
    /\ lastCall = "create_nba_database"
    /\ console = "created"
    /\ Len(rows) = 2
    /\ rows[1][1] = rows[2][1]
    /\ rows[1][2] # rows[2][2]

\* C2: a create_nba_database call on a season whose store exists writes nothing:
\* the schema and every field of every row are after the call what they were before
\* it, whatever headers and rows are passed in
C2_ExistingStoreUntouched ==
    [][(fileExists /\ lastCall' = "create_nba_database")
           => (fileExists' /\ schema' = schema /\ rows' = rows /\ console' = "exists")]_vars

\* C2: the call came back from the 'already exists' branch on a store of two
\* records whose PER had been computed
C2_SkippedOnScoredStore ==
    /\ lastCall = "create_nba_database"
    /\ console = "exists"
    /\ Len(rows) = 2
    /\ rows[1][PERColumn] # Zero

\* a record whose minutes-played text is a number equal to 0
ZeroMinutes(row) == float(Field(row, 6)) = Ok(Zero)

\* a record with a statistic of the formula that float() does not take
NonNumeric(row) == \E k \in 1..Len(StatFields) : float(Field(row, StatFields[k])).fault # "none"

FirstZeroMinutes(r) ==
    CHOOSE i \in 1..Len(r) : ZeroMinutes(r[i]) /\ \A j \in 1..(i - 1) : ~ZeroMinutes(r[j])

\* C5, as stated: with a stored record of 0 minutes PER_calculator ends with the
\* division fault and the rows are what they were
C5_DivisionFaultAlways ==
    [][(lastCall' = "PER_calculator" /\ \E i \in 1..Len(rows) : ZeroMinutes(rows[i]))
           => (console' = "ZeroDivisionError" /\ rows' = rows)]_vars

\* C5: with a stored record of 0 minutes PER_calculator ends with a fault and the
\* rows are what they were: the fault is the division fault, unless a record up to
\* the first one of 0 minutes has a statistic that is no number, and then it is
\* the conversion fault
C5_FaultAndNothingPersisted ==
    [][(lastCall' = "PER_calculator" /\ \E i \in 1..Len(rows) : ZeroMinutes(rows[i]))
           => /\ rows' = rows
              /\ console' = IF \E j \in 1..FirstZeroMinutes(rows) : NonNumeric(rows[j])
                            THEN "ValueError"
                            ELSE "ZeroDivisionError"]_vars

\* C5: the division fault on the second record, the first one scored before it and
\* its stored PER still the 0 of ingestion
C5_FaultAfterScoredRecord ==
    /\ lastCall = "PER_calculator"
    /\ console = "ZeroDivisionError"
    /\ Len(rows) = 2
    /\ ~ZeroMinutes(rows[1])
    /\ PER(rows[1]).fault = "none"
    /\ PER(rows[1]).value # Zero
    /\ ZeroMinutes(rows[2])
    /\ rows[1][PERColumn] = Zero

\* C9: on a store of a fault-free create_nba_database, the UPDATE for a record
\* (player_name = record[0] AND Position = record[1]) matches that record and no
\* other, and after a fault-free PER_calculator every record's PER is the score of
\* its own fields
C9_UpdateHitsOwnRecord ==
    /\ (~createFaulted /\ schema # <<>>)
           => \A i, k \in 1..Len(rows) :
                  (/\ rows[k][ColIndex(schema, "player_name")] = Field(rows[i], 0)
                   /\ rows[k][ColIndex(schema, "Position")] = Field(rows[i], 1)) <=> k = i
    /\ console = "per_done"
           => \A i \in 1..Len(rows) : rows[i][PERColumn] = PER(rows[i]).value

\* C9: PER_calculator ran without a fault on two records of one name, whose scores
\* differ
C9_TwoScoresOfOneName ==
    /\ lastCall = "PER_calculator"
    /\ console = "per_done"
    /\ Len(rows) = 2
    /\ rows[1][1] = rows[2][1]
    /\ rows[1][PERColumn] # rows[2][PERColumn]

\* the three renames done
FullyRenamed(cols) ==
    /\ \A k \in 1..Len(Renames) : Has(cols, Renames[k].new)
    /\ ~Has(cols, "player_team")
    /\ ~Has(cols, "Pos")

\* C10: once a create_nba_database call has faulted after creating the file, the
\* file stays, the store has no rows and is not the renamed one, and every later
\* create_nba_database call takes the 'already exists' branch and writes nothing
C10_FaultedStoreStaysBroken ==
    /\ [](createFaulted => (fileExists /\ rows = <<>> /\ ~FullyRenamed(schema)))
    /\ [][(createFaulted /\ lastCall' = "create_nba_database")
              => (console' = "exists" /\ schema' = schema /\ rows' = rows)]_vars

\* C10: a later run skipped the store that a faulted call left behind with its
\* table created
C10_SkippedAfterFault ==
    /\ createFaulted
    /\ lastCall = "create_nba_database"
    /\ console = "exists"
    /\ schema # <<>>

-----------------------------------------------------------------------------
(* Properties of the renames under SpecRen *)

\* the documented mapping: every value under the name of its header, the player's
\* name under player_name, the position under Position, PER last
DocumentedColumns ==
    [k \in 1..(Len(StdHeaders) + 1) |->
        IF k = 1 THEN "player_name"
        ELSE IF k = 2 THEN "Position"
        ELSE IF k = Len(StdHeaders) + 1 THEN "PER"
        ELSE StdHeaders[k]]

\* rename a comes before rename b in the order
Precedes(o, a, b) == \E i, j \in 1..Len(o) : i < j /\ o[i] = a /\ o[j] = b

\* C3, as stated: the documented order ends with the documented mapping, and every
\* other order of the three renames faults or ends with another mapping
C3_OnlyDocumentedOrder ==
    /\ orderUsed = RenameOrder => (~createFaulted /\ schema = DocumentedColumns)
    /\ orderUsed \notin {<<>>, RenameOrder} => (createFaulted \/ schema # DocumentedColumns)

\* C3: the three orders with Age -> Tm before Pos -> Age (the documented one among
\* them) end without a fault and with the documented mapping; the three orders
\* with Pos -> Age before Age -> Tm fault and leave a table without that mapping
C3_OrdersWithAgeFreedFirst ==
    orderUsed # <<>> =>
        IF Precedes(orderUsed, 2, 3)
        THEN ~createFaulted /\ schema = DocumentedColumns
        ELSE createFaulted /\ schema # DocumentedColumns /\ rows = <<>>

\* C3: a store created with the renames in the order Age -> Tm, Pos -> Age,
\* player_team -> Position, holding a record under the documented names
C3_OtherOrderSameMapping ==
    /\ orderUsed = <<2, 3, 1>>
    /\ ~createFaulted
    /\ schema = DocumentedColumns
    /\ Len(rows) = 1

-----------------------------------------------------------------------------
(* Properties of the header step under SpecSan *)

\* C4, as stated: the sanitizing step returns an identifier for every header of
\* every header row, the empty header and the header of non-word characters
\* included, and raises no fault
C4_SanitizerTotal ==
    lastCall = "scrape_nba_player_data" => sanitized_headers.fault = "none"

\* C4: the step ended with the IndexError of sanitized_header[0] on a header row
\* whose second header is empty
C4_EmptyHeaderFaults ==
    /\ lastCall = "scrape_nba_player_data"
    /\ Len(rawHeaders) >= 2
    /\ rawHeaders[2] = <<>>
    /\ sanitized_headers = Fault("IndexError")

-----------------------------------------------------------------------------
(* Properties of the formula under SpecPER *)

\* twenty times the positive subtotal of a line in tenths:
\* points + assists + defReb/2 + offReb + 2*steals + 2*blocks + made2 + 2*made3
TwentyPositive(l) ==
    2 * (l.PTS + l.AST + l.ORB + 2 * l.STL + 2 * l.BLK + l._2P + 2 * l._3P) + l.DRB

\* sixty times the penalty subtotal of a line in tenths:
\* att2/2 + att3 + 2*turnovers + fouls/3
SixtyPenalty(l) == 3 * l._2PA + 6 * l._3PA + 12 * l.TOV + 2 * l.PF

\* C6: for a record with positive minutes M PER_calculator ends without a fault and
\* the stored score is positive subtotal - (penalty subtotal / M), the minutes
\* dividing the whole penalty subtotal and nothing of the positive one; for the
\* line of the example the score is 42.5
C6_ScoreIsFormula ==
    (lastCall = "PER_calculator" /\ Len(rows) = 1 /\ boxLine.MP > 0) =>
        /\ console = "per_done"
        /\ rows[1][PERColumn].d > 0
        /\ rows[1][PERColumn].n * 60 * boxLine.MP
               = rows[1][PERColumn].d
                     * (3 * TwentyPositive(boxLine) * boxLine.MP - 10 * SixtyPenalty(boxLine))
        /\ boxLine = ExampleLine => rows[1][PERColumn] = [n |-> 85, d |-> 2]

\* C6: the record of the example, scored 42.5
C6_ExampleScored ==
    /\ lastCall = "PER_calculator"
    /\ console = "per_done"
    /\ boxLine = ExampleLine
    /\ Len(rows) = 1
    /\ rows[1][PERColumn] = [n |-> 85, d |-> 2]

-----------------------------------------------------------------------------
(* Properties of the report under SpecRank *)

Reported == lastCall = "print_top_players" /\ console = "report"

\* the games-played count of a stored record, its text read as a number
GamesNumber(row) == DigitsValue(row[ColIndex(schema, "G")])

\* the record is among those the query returned
Selected(row) ==
    \E k \in 1..Len(player_records) :
        player_records[k][1] = row[1] /\ player_records[k][2] = row[2]

\* C7, as stated: print_top_players ranks exactly the stored players whose
\* games-played count, as a number, is at least 50
C7_NumericFilter ==
    Reported => \A i \in 1..Len(rows) : Selected(rows[i]) <=> GamesNumber(rows[i]) >= MinGames

\* C7: a report that ranks a player of 6 games and leaves out one of 100 games
C7_SixGamesRanked ==
    /\ Reported
    /\ \E i \in 1..Len(rows) : GamesNumber(rows[i]) = 6 /\ Selected(rows[i])
    /\ \E i \in 1..Len(rows) : GamesNumber(rows[i]) = 100 /\ ~Selected(rows[i])

\* the (name, score) pairs of the eligible records of one position
PoolOf(position) ==
    [i \in 1..Len(SelectSeq(player_records, LAMBDA rec : rec[2] = position)) |->
        <<SelectSeq(player_records, LAMBDA rec : rec[2] = position)[i][1],
          SelectSeq(player_records, LAMBDA rec : rec[2] = position)[i][3]>>]

\* the (name, score) pairs of all eligible records
PoolOfAll == [i \in 1..Len(player_records) |-> <<player_records[i][1], player_records[i][3]>>]

Listed(list, entry) == \E i \in 1..Len(list) : list[i] = entry

\* list is the k highest-scoring entries of pool (all of them when there are fewer),
\* in non-increasing score order: which of the entries of a tied score it takes is
\* open
IsTopOf(list, pool, k) ==
    /\ Len(list) = IF Len(pool) < k THEN Len(pool) ELSE k
    /\ \A i \in 1..(Len(list) - 1) : ~RLess(list[i][2], list[i + 1][2])
    /\ \A i, j \in 1..Len(list) : list[i] = list[j] => i = j
    /\ \A i \in 1..Len(list) : Listed(pool, list[i])
    /\ \A j \in 1..Len(pool) :
           Listed(list, pool[j]) \/ \A i \in 1..Len(list) : ~RLess(list[i][2], pool[j][2])

\* C8: in whatever order the eligible records were read, every position with an
\* eligible record has one list, the (at most) 10 highest-scoring eligible players
\* of the position in non-increasing score order, and the overall list is the (at
\* most) 75 highest-scoring of all eligible players in non-increasing score order;
\* the eligible records are those the query returned
C8_TopListsByScore ==
    Reported =>
        /\ \A i \in 1..Len(player_records) :
               \E g \in 1..Len(topByPosition) : topByPosition[g][1] = player_records[i][2]
        /\ \A g, h \in 1..Len(topByPosition) :
               topByPosition[g][1] = topByPosition[h][1] => g = h
        /\ \A g \in 1..Len(topByPosition) :
               IsTopOf(topByPosition[g][2], PoolOf(topByPosition[g][1]), TopPerPosition)
        /\ IsTopOf(topOverall, PoolOfAll, TopOverallCount)

\* C8: a report on more than 75 eligible records in two groups of more than 10,
\* the overall list cut at 75 and holding a player who is not in the list of their
\* position
C8_OverallBeyondGroupLists ==
    /\ Reported
    /\ Len(player_records) > TopOverallCount
    /\ Len(topOverall) = TopOverallCount
    /\ Len(topByPosition) = 2
    /\ \A g \in 1..2 : Len(topByPosition[g][2]) = TopPerPosition
    /\ \E i \in 1..Len(topOverall) :
           \A g \in 1..2 : ~Listed(topByPosition[g][2], topOverall[i])
    /\ \E i \in 1..(Len(topOverall) - 1) : RLess(topOverall[i + 1][2], topOverall[i][2])

====
